---- MODULE Spec2Model ----
(***************************************************************************)
(* A model of ez-opendata.js, a client library that queries Overpass,      *)
(* Wikipedia, Wikidata and Wikimedia Commons and reshapes their JSON.      *)
(*                                                                         *)
(* JavaScript values are modelled as follows.  An object is a function     *)
(* from its own keys (strings) to values, so a missing key is a key that   *)
(* is not in the DOMAIN.  An array is a sequence.  Outside extractDiets a  *)
(* string is a TLA+ string and `undefined` is the string "undefined",      *)
(* which is also what a template literal prints for it.  Inside            *)
(* extractDiets, which takes strings apart, a string is the sequence of    *)
(* its characters.                                                         *)
(*                                                                         *)
(* One invocation of an exported function is in progress at a time: pc     *)
(* follows it from the call through its awaits to the settlement of the    *)
(* promise it returned.                                                    *)
(***************************************************************************)
EXTENDS Naturals, Sequences, FiniteSets, TLC

VARIABLES
    op,        \* the exported function that was called, or "none"
    pc,        \* "idle", "fetch", "json", "outer" or "settled"
    args,      \* the arguments of the call
    requests,  \* the outbound requests fetch() was called with, in order
    data,      \* the parsed response bodies: none, then the one json() gave
    inner,     \* the settled promise of the async function the caller awaits
    outcome    \* the promise returned to the caller

vars == <<op, pc, args, requests, data, inner, outcome>>

----------------------------------------------------------------------------
(* Bounds of the model *)

\* the longest `elements` array of an Overpass response
MaxElements == 2
\* the longest list of hits, articles or bindings in a response
MaxHits == 2
\* the longest list of POIs given to extractDiets
MaxPois == 3

----------------------------------------------------------------------------
(* JavaScript objects *)

Undefined == "undefined"

EmptyObject == [k \in {} |-> Undefined]

Has(o, k) == k \in DOMAIN o

\* o[k] or o.k
Get(o, k) == IF k \in DOMAIN o THEN o[k] ELSE Undefined

\* ToBoolean of a string-or-undefined value
Truthy(v) == v # Undefined /\ v # ""

\* { ...a, ...b }
Spread(a, b) ==
    [k \in DOMAIN a \cup DOMAIN b |-> IF k \in DOMAIN b THEN b[k] ELSE a[k]]

\* delete o[k]
Delete(o, k) == [j \in DOMAIN o \ {k} |-> o[j]]

\* o[k] = v
Put(o, k, v) == [j \in DOMAIN o \cup {k} |-> IF j = k THEN v ELSE o[j]]

\* a settled promise
Resolved(v) == [status |-> "resolved", value |-> v]
Rejected(e) == [status |-> "rejected", value |-> e]
Pending == [status |-> "pending"]

NoData == <<>>
NoArgs == EmptyObject

----------------------------------------------------------------------------
(* openstreetmapGetPOIs: the Overpass query *)

OverpassUrl == "https://overpass-api.de/api/interpreter"

\* A category as the caller writes it: the array [key, value] ...
Pair(k, v) == [iterable |-> TRUE, first |-> k, second |-> v]
\* ... or the object { key: k, value: v }, which is not iterable
KeyValue(k, v) == [iterable |-> FALSE, key |-> k, value |-> v]

\* The three clauses forEach appends to `quest` for one category; the
\* parameter pattern ([key, value]) has already destructured it.
Clauses(key, value, bbox) ==
    "node[\"" \o key \o "\"=\"" \o value \o "\"](" \o bbox \o ");"
    \o "way[\"" \o key \o "\"=\"" \o value \o "\"](" \o bbox \o ");"
    \o "relation[\"" \o key \o "\"=\"" \o value \o "\"](" \o bbox \o ");"

\* `quest` after categories.forEach
RECURSIVE Quest(_, _)
Quest(bbox, categories) ==
    IF categories = <<>> THEN ""
    ELSE Clauses(Head(categories).first, Head(categories).second, bbox)
         \o Quest(bbox, Tail(categories))

\* The array pattern ([key, value]) throws a TypeError on a value that is
\* not iterable; forEach then throws out of the async function.
DestructuringThrows(categories) ==
    \E i \in 1..Len(categories) : ~categories[i].iterable

\* The body of the POST
OverpassBody(bbox, categories) ==
    "[out:json][timeout:25];(" \o Quest(bbox, categories)
    \o ");out body;>;out skel qt;"

OverpassRequest(bbox, categories) ==
    [url |-> OverpassUrl, method |-> "POST",
     body |-> OverpassBody(bbox, categories)]

----------------------------------------------------------------------------
(* openstreetmapGetPOIs: the responses *)

\* The types a raw element may state; a way passes through as a node does
RawTypes == {"node", "relation"}

\* Tag keys a response may carry: the ones that collide with the fields of
\* an element, and the two the function reads.
TagKeys == {"id", "type", "tags", "members", "website", "contact:website"}

\* The value a tag has in the responses, one per key
TagValue(k) == k \o "-value"

\* The key sets of the tag objects: empty, one key, both website keys, and
\* every key at once
TagKeySets ==
    {{}} \cup {{k} : k \in TagKeys}
    \cup {{"website", "contact:website"}, TagKeys}

\* The tag objects of the responses: a value for each key of a key set, and
\* a tag `members` whose value is the empty string
TagDicts ==
    {[k \in ks |-> TagValue(k)] : ks \in TagKeySets}
    \cup {[k \in {"members"} |-> ""]}

\* The value of `members` in a raw element: an array, which is truthy
MembersArray == "[members]"

\* What an element of a response looks like: whether it states a type, has
\* members, has a tag object, and that object
Shapes ==
    {sh \in [type : RawTypes \cup {Undefined}, hasMembers : BOOLEAN,
             hasTags : BOOLEAN, tags : TagDicts] :
        sh.hasTags \/ sh.tags = EmptyObject}

\* The i-th element of a response: its id is its position
RawElement(i, sh) ==
    [k \in {"id"} \cup (IF sh.type = Undefined THEN {} ELSE {"type"})
            \cup (IF sh.hasMembers THEN {"members"} ELSE {})
            \cup (IF sh.hasTags THEN {"tags"} ELSE {}) |->
        CASE k = "id" -> ToString(i)
          [] k = "type" -> sh.type
          [] k = "members" -> MembersArray
          [] k = "tags" -> sh.tags]

\* The parsed body { elements: [...] } whose elements have the shapes shs
OverpassBodyOf(shs) ==
    [k \in {"elements"} |-> [i \in DOMAIN shs |-> RawElement(i, shs[i])]]

----------------------------------------------------------------------------
(* openstreetmapGetPOIs: the transformation *)

OsmBase == "https://www.openstreetmap.org/"

\* (p) => p.tags : an object, even an empty one, is truthy
KeepElement(p) == Has(p, "tags")

\* UrlType without the test of p.members
UrlTypeIgnoringMembers(p) == Get(p, "type")

\* const type = p.members ? 'relation' : p.type
UrlType(p) == IF Truthy(Get(p, "members")) THEN "relation" ELSE Get(p, "type")

\* if (!p.website && p['contact:website']) p.website = p['contact:website']
WithWebsite(p) ==
    IF ~Truthy(Get(p, "website")) /\ Truthy(Get(p, "contact:website"))
    THEN Put(p, "website", Get(p, "contact:website"))
    ELSE p

\* the callback of map
ToPoi(raw) ==
    LET merged == Delete(Spread(raw, raw["tags"]), "tags")
        type == UrlType(merged)
        p == WithWebsite(merged)
        q == Put(p, "osm_url", OsmBase \o type \o "/" \o Get(p, "id"))
    IN  Put(q, "osm_url_edit",
            OsmBase \o "edit?" \o type \o "=" \o Get(p, "id"))

\* array.map(f)
RECURSIVE MapPois(_)
MapPois(es) ==
    IF es = <<>> THEN <<>> ELSE <<ToPoi(Head(es))>> \o MapPois(Tail(es))

\* what the async function settles to once response.json() gave `d`
PoisOf(d) ==
    IF ~Has(d, "elements") THEN Rejected("TypeError")
    ELSE Resolved(MapPois(SelectSeq(d["elements"], KeepElement)))

----------------------------------------------------------------------------
(* openstreetmapGetRestaurants, getFoodShops *)

DemoBBox == "37.8,-122.3,37.8,-122.2"

\* the categories openstreetmapGetRestaurants passes: objects, not arrays
RestaurantCategories ==
    <<KeyValue("amenity", "cafe"), KeyValue("amenity", "restaurant")>>

\* the categories getFoodShops passes
FoodShopCategories ==
    <<Pair("amenity", "cafe"), Pair("amenity", "restaurant"),
      Pair("shop", "deli"), Pair("amenity", "ice_cream"),
      Pair("amenity", "fast_food")>>

\* array.join(sep) of an array of strings
RECURSIVE Join(_, _)
Join(xs, sep) ==
    IF xs = <<>> THEN ""
    ELSE IF Len(xs) = 1 THEN xs[1]
    ELSE xs[1] \o sep \o Join(Tail(xs), sep)

\* bbox.join(',') after the four pushes; a coordinate is the decimal text
\* join prints for it
FoodShopsBBox(viewport) ==
    Join(<<viewport["_southWest"]["lat"], viewport["_southWest"]["lng"],
           viewport["_northEast"]["lat"], viewport["_northEast"]["lng"]>>, ",")

LatLng(lat, lng) == [lat |-> lat, lng |-> lng]

\* Inputs: map corners, bounding boxes and category lists of callers
Corners == {LatLng("37.9", "-122.2"), LatLng("37.8", "-122.3")}
Viewports ==
    {[_northEast |-> LatLng("37.9", "-122.2"),
      _southWest |-> LatLng("37.8", "-122.3")]}
BBoxes == {DemoBBox}
CategoryLists ==
    {<<Pair("amenity", "cafe"), Pair("amenity", "restaurant")>>,
     <<Pair("leisure", "park")>>}

----------------------------------------------------------------------------
(* extractDiets: strings as sequences of characters *)

Yes == <<"y", "e", "s">>
No == <<"n", "o">>
Diet == <<"d", "i", "e", "t">>
Cuisine == <<"c", "u", "i", "s", "i", "n", "e">>

\* `undefined` among strings: no string, since "undefined" is no character
UndefinedStr == <<"undefined">>

Range(xs) == {xs[i] : i \in DOMAIN xs}

UpperCase ==
    <<"A", "B", "C", "D", "E", "F", "G", "H", "I", "J", "K", "L", "M",
      "N", "O", "P", "Q", "R", "S", "T", "U", "V", "W", "X", "Y", "Z">>
LowerCase ==
    <<"a", "b", "c", "d", "e", "f", "g", "h", "i", "j", "k", "l", "m",
      "n", "o", "p", "q", "r", "s", "t", "u", "v", "w", "x", "y", "z">>

\* s.toLowerCase()
ToLowerCase(s) ==
    [i \in DOMAIN s |->
        IF \E j \in DOMAIN UpperCase : UpperCase[j] = s[i]
        THEN LowerCase[CHOOSE j \in DOMAIN UpperCase : UpperCase[j] = s[i]]
        ELSE s[i]]

WhiteSpace == {" ", "\t", "\n"}

\* s.trim()
RECURSIVE Trim(_)
Trim(s) ==
    IF s = <<>> THEN s
    ELSE IF Head(s) \in WhiteSpace THEN Trim(Tail(s))
    ELSE IF s[Len(s)] \in WhiteSpace THEN Trim(SubSeq(s, 1, Len(s) - 1))
    ELSE s

\* s.split(sep) for a separator of one character
RECURSIVE Split(_, _)
Split(s, sep) ==
    IF \A i \in DOMAIN s : s[i] # sep THEN <<s>>
    ELSE LET i == CHOOSE j \in DOMAIN s :
                      s[j] = sep /\ \A h \in 1..(j - 1) : s[h] # sep
         IN  <<SubSeq(s, 1, i - 1)>> \o Split(SubSeq(s, i + 1, Len(s)), sep)

\* s.startsWith(prefix)
StartsWith(s, prefix) ==
    Len(s) >= Len(prefix) /\ SubSeq(s, 1, Len(prefix)) = prefix

\* array.at(1)
At1(xs) == IF Len(xs) >= 2 THEN xs[2] ELSE UndefinedStr

----------------------------------------------------------------------------
(* extractDiets *)

\* A POI here is the list of its [key, value] entries in the order of
\* Object.keys; a Set is the list of its members in insertion order, a Map
\* the list of its [key, value] entries in insertion order.

Entry(k, v) == [key |-> k, value |-> v]

\* poi[key]
PoiGet(poi, key) ==
    IF \E i \in DOMAIN poi : poi[i].key = key
    THEN poi[CHOOSE i \in DOMAIN poi : poi[i].key = key].value
    ELSE UndefinedStr

\* SetAdd on an array instead of a Set: push(x)
SetAddNoDedupe(set, x) == Append(set, x)

\* set.add(x)
SetAdd(set, x) == IF x \in Range(set) THEN set ELSE Append(set, x)

\* xs.forEach(x => set.add(f(x))) for the list ys of the f(x)
RECURSIVE AddAll(_, _)
AddAll(set, ys) ==
    IF ys = <<>> THEN set ELSE AddAll(SetAdd(set, Head(ys)), Tail(ys))

\* poi.cuisine?.split(`;`) mapped by c => c?.trim()?.toLowerCase()
CuisineLabels(poi) ==
    IF PoiGet(poi, Cuisine) = UndefinedStr THEN <<>>
    ELSE LET tokens == Split(PoiGet(poi, Cuisine), ";")
         IN  [i \in DOMAIN tokens |-> ToLowerCase(Trim(tokens[i]))]

\* key => key.startsWith(`diet`) && poi[key] === `yes`
IsDietEntry(e) == StartsWith(e.key, Diet) /\ e.value = Yes

\* Object.keys(poi).filter(...) mapped by key => key.split(`:`).at(1)
DietKeyLabels(poi) ==
    LET entries == SelectSeq(poi, IsDietEntry)
    IN  [i \in DOMAIN entries |-> At1(Split(entries[i].key, ":"))]

\* the Set `diets` of one POI
DietsOfPoi(poi) == AddAll(AddAll(<<>>, CuisineLabels(poi)), DietKeyLabels(poi))

\* dietsMap.has(diet) ? dietsMap.set(diet, dietsMap.get(diet) + 1)
\*                     : dietsMap.set(diet, 1)
Count(dietsMap, diet) ==
    IF \E i \in DOMAIN dietsMap : dietsMap[i][1] = diet
    THEN [i \in DOMAIN dietsMap |->
            IF dietsMap[i][1] = diet
            THEN <<diet, dietsMap[i][2] + 1>> ELSE dietsMap[i]]
    ELSE Append(dietsMap, <<diet, 1>>)

\* diets.forEach(diet => ...)
RECURSIVE CountAll(_, _)
CountAll(dietsMap, diets) ==
    IF diets = <<>> THEN dietsMap
    ELSE CountAll(Count(dietsMap, Head(diets)), Tail(diets))

\* pois.forEach(poi => ...)
RECURSIVE DietsMap(_, _)
DietsMap(dietsMap, pois) ==
    IF pois = <<>> THEN dietsMap
    ELSE DietsMap(CountAll(dietsMap, DietsOfPoi(Head(pois))), Tail(pois))

\* Compare with its operands swapped: a[1] - b[1]
CompareAscending(a, b) == a[2] - b[2]

\* (a, b) => b[1] - a[1] : negative when a goes first
Compare(a, b) == b[2] - a[2]

\* One step of a stable sort: x goes behind every entry it does not
\* precede, so behind the entries it compares equal to.
RECURSIVE InsertSorted(_, _)
InsertSorted(sorted, x) ==
    IF sorted = <<>> THEN <<x>>
    ELSE IF Compare(x, Head(sorted)) < 0 THEN <<x>> \o sorted
    ELSE <<Head(sorted)>> \o InsertSorted(Tail(sorted), x)

\* entries.sort(compare): Array.prototype.sort is stable
RECURSIVE SortEntries(_, _)
SortEntries(sorted, entries) ==
    IF entries = <<>> THEN sorted
    ELSE SortEntries(InsertSorted(sorted, Head(entries)), Tail(entries))

extractDiets(pois) == SortEntries(<<>>, DietsMap(<<>>, pois))

\* Inputs: what a POI says of its cuisine ...
CuisineValues == {<<"A", ";", " ", "a">>, <<"b", ";", "a">>}

\* ... and its other entries, in the order of its keys
OtherEntries ==
    {<<>>,
     <<Entry(Diet \o <<":", "a">>, Yes)>>,
     <<Entry(Diet \o <<":", "a">>, No)>>,
     <<Entry(Diet \o <<":", "c", ":", "b">>, Yes),
       Entry(Diet \o <<":", "a">>, Yes)>>,
     <<Entry(Diet, Yes)>>,
     <<Entry(<<"n", "a", "m", "e">>, <<"x">>)>>}

DietPois ==
    OtherEntries
    \cup {<<Entry(Cuisine, c)>> \o es : c \in CuisineValues, es \in OtherEntries}

----------------------------------------------------------------------------
(* wikipediaQuery *)

\* a parameter with a default value: undefined takes the default
Default(v, d) == IF v = Undefined THEN d ELSE v

WikipediaUrl(lat, lon, language, radius, limit) ==
    "https://" \o language \o ".wikipedia.org/w/api.php"
    \o "?action=query&list=geosearch&gscoord=" \o lat \o "%7C" \o lon
    \o "&gsradius=" \o radius \o "&gslimit=" \o limit
    \o "&origin=*&format=json"

WikipediaRequest(a) ==
    [url |-> WikipediaUrl(Default(a.lat, "37"), Default(a.lon, "-122"),
                          Default(a.language, "en"),
                          Default(a.radius, "10000"),
                          Default(a.limit, "100")),
     method |-> "GET"]

\* (a) => { a.url = ...; return a }
WithArticleUrl(a, language) ==
    Put(a, "url",
        "https://" \o language \o ".wikipedia.org/wiki/" \o Get(a, "title"))

RECURSIVE MapArticles(_, _)
MapArticles(as, language) ==
    IF as = <<>> THEN <<>>
    ELSE <<WithArticleUrl(Head(as), language)>>
         \o MapArticles(Tail(as), language)

\* d.query.geosearch.map(...)
ArticlesOf(d, a) ==
    IF ~Has(d, "query") THEN Rejected("TypeError")
    ELSE IF ~Has(d["query"], "geosearch") THEN Rejected("TypeError")
    ELSE Resolved(MapArticles(d["query"]["geosearch"],
                              Default(a.language, "en")))

\* sequences over S of length at most n
SeqsUpTo(S, n) == UNION {[1..m -> S] : m \in 0..n}

Articles == {[k \in {"title"} |-> t] : t \in {"Oakland", "Berkeley"}}

\* { query: { geosearch: [...] } } and the bodies that lack one of the keys
GeosearchBodies(hits) ==
    {[k \in {"query"} |-> [j \in {"geosearch"} |-> hs]] :
        hs \in SeqsUpTo(hits, MaxHits)}
    \cup {[k \in {"query"} |-> EmptyObject], EmptyObject}

WikipediaArgs ==
    {[lat |-> Undefined, lon |-> Undefined, language |-> Undefined,
      radius |-> Undefined, limit |-> Undefined],
     [lat |-> "48.8", lon |-> "2.3", language |-> "fr",
      radius |-> "500", limit |-> "10"]}

----------------------------------------------------------------------------
(* wikidataQuery *)

WikidataBase ==
    "https://query.wikidata.org/bigdata/namespace/wdq/sparql?format=json&query="

\* encodeURI of n spaces
RECURSIVE Sp(_)
Sp(n) == IF n = 0 THEN "" ELSE "%20" \o Sp(n - 1)

\* encodeURI(q): the template's own text is written as encodeURI leaves it
\* (space %20, line break %0A, braces %7B %7D, quote %22, ^ %5E, brackets
\* %5B %5D); the interpolated coordinates and limit are digits, '-' and
\* '.', which encodeURI keeps.
EncodedSparql(northEast, southWest, limit) ==
    "SELECT%20?q%20?qLabel%20?location%20?image%20?reason%20?desc%20?commonscat%20WHERE%20%7B"
    \o "%0A"
    \o Sp(18)
    \o "SERVICE%20wikibase:box%20%7B"
    \o "%0A"
    \o Sp(20)
    \o "?q%20wdt:P625%20?location."
    \o "%0A"
    \o Sp(20)
    \o "bd:serviceParam%20wikibase:cornerSouthWest%20%22Point("
    \o Get(southWest, "lng")
    \o "%20"
    \o Get(southWest, "lat")
    \o ")%22%5E%5Egeo:wktLiteral;"
    \o "%0A"
    \o Sp(22)
    \o "wikibase:cornerNorthEast%20%22Point("
    \o Get(northEast, "lng")
    \o "%20"
    \o Get(northEast, "lat")
    \o ")%22%5E%5Egeo:wktLiteral."
    \o "%0A"
    \o Sp(18)
    \o "%7D"
    \o "%0A"
    \o Sp(18)
    \o "OPTIONAL%20%7B%20?q%20wdt:P18%20?image.%20%7D%20"
    \o "%0A"
    \o Sp(18)
    \o "OPTIONAL%20%7B%20?q%20wdt:P373%20?commonscat.%20%7D"
    \o "%0A"
    \o Sp(18)
    \o "SERVICE%20wikibase:label%20%7B"
    \o "%0A"
    \o Sp(20)
    \o "bd:serviceParam%20wikibase:language%20%22%5BAUTO_LANGUAGE%5D%22."
    \o "%0A"
    \o Sp(20)
    \o "?q%20schema:description%20?desc;"
    \o "%0A"
    \o Sp(22)
    \o "rdfs:label%20?qLabel."
    \o "%0A"
    \o Sp(18)
    \o "%7D"
    \o "%0A"
    \o Sp(12)
    \o "%7D"
    \o "%0A"
    \o Sp(12)
    \o "LIMIT%20"
    \o limit

WikidataRequest(a) ==
    [url |-> WikidataBase
             \o EncodedSparql(a.northEast, a.southWest,
                              Default(a.limit, "3000")),
     method |-> "GET"]

\* d.results.bindings || []
BindingsOf(d) ==
    IF ~Has(d, "results") THEN Rejected("TypeError")
    ELSE IF Has(d["results"], "bindings")
         THEN Resolved(d["results"]["bindings"])
         ELSE Resolved(<<>>)

Bindings == {[k \in {"qLabel"} |-> l] : l \in {"Q1", "Q2"}}

WikidataBodies ==
    {[k \in {"results"} |-> [j \in {"bindings"} |-> bs]] :
        bs \in SeqsUpTo(Bindings, MaxHits)}
    \cup {[k \in {"results"} |-> EmptyObject], EmptyObject}

BoxArgs ==
    {[northEast |-> ne, southWest |-> sw, limit |-> l] :
        ne \in Corners, sw \in Corners, l \in {Undefined, "5"}}

----------------------------------------------------------------------------
(* wikimediaQuery *)

CommonsApi == "https://commons.wikimedia.org/w/api.php"

WikimediaRequest(a) ==
    [url |-> CommonsApi \o "?action=query&list=geosearch&gsbbox="
             \o Get(a.northEast, "lat") \o "%7C" \o Get(a.southWest, "lng")
             \o "%7C" \o Get(a.southWest, "lat") \o "%7C"
             \o Get(a.northEast, "lng")
             \o "&gsnamespace=6&gslimit=" \o Default(a.limit, "100")
             \o "&format=json&origin=*",
     method |-> "GET"]

\* HitsOf with the test of d.error behind the hits: a body that has
\* query.geosearch resolves to it
HitsOfPreferringHits(d) ==
    IF Has(d, "query") /\ Has(d["query"], "geosearch")
    THEN Resolved(d["query"]["geosearch"])
    ELSE IF Has(d, "error") THEN Rejected(d["error"])
    ELSE IF ~Has(d, "query") THEN Rejected("TypeError")
    ELSE Resolved(<<>>)

\* if (d.error) return Promise.reject(d.error)
\* else return d.query.geosearch || []
HitsOf(d) ==
    IF Has(d, "error") THEN Rejected(d["error"])
    ELSE IF ~Has(d, "query") THEN Rejected("TypeError")
    ELSE IF Has(d["query"], "geosearch")
         THEN Resolved(d["query"]["geosearch"])
         ELSE Resolved(<<>>)

Hits == {[k \in {"pageid"} |-> i] : i \in {"1", "2"}}

\* the error objects of the MediaWiki API
ErrorObjects ==
    {[code |-> c, info |-> "info"] : c \in {"badparams", "maxlag"}}

\* a body may carry `error` alone or beside a query
WikimediaBodies ==
    GeosearchBodies(Hits)
    \cup {Put(b, "error", e) : b \in GeosearchBodies(Hits), e \in ErrorObjects}

----------------------------------------------------------------------------
(* wikimediaInfoMultiplePages, wikimediaInfo *)

PageIds == {"1", "2"}

InfoUrl(pageids, thumbWidth) ==
    CommonsApi \o "?action=query&pageids=" \o Join(pageids, "|")
    \o "&prop=imageinfo&iiprop=extmetadata|url&format=json&origin=*"
    \o "&iiurlwidth=" \o thumbWidth

InfoRequest(pageids, thumbWidth) ==
    [url |-> InfoUrl(pageids, Default(thumbWidth, "600")), method |-> "GET"]

\* a promise resolved with `undefined`
ResolvedUndefined == [status |-> "resolved"]

\* return d.query.pages
PagesOf(d) ==
    IF ~Has(d, "query") THEN Rejected("TypeError")
    ELSE IF Has(d["query"], "pages") THEN Resolved(d["query"]["pages"])
    ELSE ResolvedUndefined

ExtFields ==
    {"ObjectName", "DateTime", "Categories", "ImageDescription", "Artist"}

\* InfoOf with optional chaining, infos?.[pageid]?.imageinfo?.[0] ?? {}
InfoOfLenient(settled, pageid) ==
    IF ~Has(settled, "value") THEN Resolved(EmptyObject)
    ELSE IF ~Has(settled.value, pageid) THEN Resolved(EmptyObject)
    ELSE IF ~Has(settled.value[pageid], "imageinfo") THEN Resolved(EmptyObject)
    ELSE IF Len(settled.value[pageid]["imageinfo"]) = 0
         THEN Resolved(EmptyObject)
    ELSE Resolved(settled.value[pageid]["imageinfo"][1])

\* The rest of wikimediaInfo once the awaited promise has resolved to
\* `infos`, the value of `settled`: each property read of undefined throws a
\* TypeError.
InfoOf(settled, pageid) ==
    IF ~Has(settled, "value") THEN Rejected("TypeError")
    ELSE IF ~Has(settled.value, pageid) THEN Rejected("TypeError")
    ELSE IF ~Has(settled.value[pageid], "imageinfo") THEN Rejected("TypeError")
    ELSE IF Len(settled.value[pageid]["imageinfo"]) = 0
         THEN Rejected("TypeError")
    ELSE LET info == settled.value[pageid]["imageinfo"][1] IN
         IF ~Has(info, "extmetadata") THEN Rejected("TypeError")
         ELSE IF ~(ExtFields \subseteq DOMAIN info["extmetadata"])
              THEN Rejected("TypeError")
         ELSE LET em == info["extmetadata"] IN
              Resolved(Spread(
                  [name |-> Get(em["ObjectName"], "value"),
                   date |-> Get(em["DateTime"], "value"),
                   categories |-> Get(em["Categories"], "value"),
                   description |-> Get(em["ImageDescription"], "value"),
                   artistHtml |-> Get(em["Artist"], "value")],
                  info))

\* extmetadata: complete, or with one field missing
ExtMetadatas ==
    {[f \in ExtFields \ miss |-> [k \in {"value"} |-> f \o "-value"]] :
        miss \in {{}} \cup {{f} : f \in ExtFields}}

ImageInfos ==
    {[k \in {"url"} |-> "https://upload.wikimedia.org/f.jpg"]}
    \cup {[k \in {"url", "extmetadata"} |->
              IF k = "url" THEN "https://upload.wikimedia.org/f.jpg" ELSE em] :
            em \in ExtMetadatas}

\* an entry of `pages`: a missing page, a page without images, a file
PageEntries ==
    {[k \in {"missing"} |-> ""]}
    \cup {[k \in {"imageinfo"} |-> is] : is \in SeqsUpTo(ImageInfos, 1)}

PageMaps == UNION {[ids -> PageEntries] : ids \in SUBSET PageIds}

InfoBodies ==
    {[k \in {"query"} |-> [j \in {"pages"} |-> pm]] : pm \in PageMaps}
    \cup {[k \in {"query"} |-> EmptyObject], EmptyObject}

PageIdLists == {<<"1">>, <<"2">>, <<"1", "2">>}
ThumbWidths == {Undefined, "300"}

----------------------------------------------------------------------------
(* The invocations *)

OverpassOps ==
    {"openstreetmapGetPOIs", "openstreetmapGetRestaurants", "getFoodShops"}

\* the async functions that await another async function of the library
Awaiters == {"getFoodShops", "wikimediaInfo"}

Init ==
    /\ op = "none"
    /\ pc = "idle"
    /\ args = NoArgs
    /\ requests = <<>>
    /\ data = NoData
    /\ inner = Pending
    /\ outcome = Pending

\* The async function that called fetch settles with r: a caller that
\* awaits it resumes later, otherwise r is the promise the caller holds.
Settle(o, r) ==
    IF o \in Awaiters
    THEN inner' = r /\ pc' = "outer" /\ UNCHANGED outcome
    ELSE outcome' = r /\ pc' = "settled" /\ UNCHANGED inner

\* openstreetmapGetPOIs up to its first await, called on behalf of o
EnterGetPOIs(o, bbox, categories) ==
    IF DestructuringThrows(categories)
    THEN /\ Settle(o, Rejected("TypeError"))
         /\ UNCHANGED <<requests, data>>
    ELSE /\ requests' = Append(requests, OverpassRequest(bbox, categories))
         /\ pc' = "fetch"
         /\ UNCHANGED <<data, inner, outcome>>

\* fetch(url) up to the first await of the other functions
EnterFetch(request) ==
    /\ requests' = Append(requests, request)
    /\ pc' = "fetch"
    /\ UNCHANGED <<data, inner, outcome>>

CallOpenstreetmapGetPOIs ==
    \E bbox \in BBoxes, categories \in CategoryLists :
        /\ pc = "idle"
        /\ op' = "openstreetmapGetPOIs"
        /\ args' = [bbox |-> bbox, categories |-> categories]
        /\ EnterGetPOIs("openstreetmapGetPOIs", bbox, categories)

CallOpenstreetmapGetRestaurants ==
    /\ pc = "idle"
    /\ op' = "openstreetmapGetRestaurants"
    /\ args' = NoArgs
    /\ EnterGetPOIs("openstreetmapGetRestaurants", DemoBBox,
                    RestaurantCategories)

CallGetFoodShops ==
    \E viewport \in Viewports :
        /\ pc = "idle"
        /\ op' = "getFoodShops"
        /\ args' = viewport
        /\ EnterGetPOIs("getFoodShops", FoodShopsBBox(viewport),
                        FoodShopCategories)

CallWikipediaQuery ==
    \E a \in WikipediaArgs :
        /\ pc = "idle"
        /\ op' = "wikipediaQuery"
        /\ args' = a
        /\ EnterFetch(WikipediaRequest(a))

CallWikidataQuery ==
    \E a \in BoxArgs :
        /\ pc = "idle"
        /\ op' = "wikidataQuery"
        /\ args' = a
        /\ EnterFetch(WikidataRequest(a))

CallWikimediaQuery ==
    \E a \in BoxArgs :
        /\ pc = "idle"
        /\ op' = "wikimediaQuery"
        /\ args' = a
        /\ EnterFetch(WikimediaRequest(a))

CallWikimediaInfoMultiplePages ==
    \E pageids \in PageIdLists, thumbWidth \in ThumbWidths :
        /\ pc = "idle"
        /\ op' = "wikimediaInfoMultiplePages"
        /\ args' = [pageids |-> pageids, thumbWidth |-> thumbWidth]
        /\ EnterFetch(InfoRequest(pageids, thumbWidth))

\* wikimediaInfo calls wikimediaInfoMultiplePages([pageid], thumbWidth)
CallWikimediaInfo ==
    \E pageid \in PageIds, thumbWidth \in ThumbWidths :
        /\ pc = "idle"
        /\ op' = "wikimediaInfo"
        /\ args' = [pageid |-> pageid, thumbWidth |-> thumbWidth]
        /\ EnterFetch(InfoRequest(<<pageid>>, Default(thumbWidth, "600")))

\* the bodies response.json() may resolve to, per exported function
Bodies(o) ==
    CASE o = "wikipediaQuery" -> GeosearchBodies(Articles)
      [] o = "wikidataQuery" -> WikidataBodies
      [] o = "wikimediaQuery" -> WikimediaBodies
      [] o \in {"wikimediaInfoMultiplePages", "wikimediaInfo"} -> InfoBodies

\* what the function that awaited response.json() does with the body d
Transform(o, d, a) ==
    CASE o \in OverpassOps -> PoisOf(d)
      [] o = "wikipediaQuery" -> ArticlesOf(d, a)
      [] o = "wikidataQuery" -> BindingsOf(d)
      [] o = "wikimediaQuery" -> HitsOf(d)
      [] o \in {"wikimediaInfoMultiplePages", "wikimediaInfo"} -> PagesOf(d)

\* await fetch(...) resumes with a response
FetchResolve ==
    /\ pc = "fetch"
    /\ pc' = "json"
    /\ UNCHANGED <<op, args, requests, data, inner, outcome>>

\* fetch rejects: the request could not be made
FetchReject ==
    /\ pc = "fetch"
    /\ Settle(op, Rejected("NetworkError"))
    /\ UNCHANGED <<op, args, requests, data>>

\* await response.json() resumes with the parsed body; the function runs to
\* its end
JsonResolve ==
    /\ pc = "json"
    /\ op \notin OverpassOps
    /\ \E d \in Bodies(op) :
        /\ data' = <<d>>
        /\ Settle(op, Transform(op, d, args))
    /\ UNCHANGED <<op, args, requests>>

\* The same in openstreetmapGetPOIs: the body has an `elements` array of at
\* most MaxElements elements, or no `elements` at all.
OverpassJsonResolve ==
    /\ pc = "json"
    /\ op \in OverpassOps
    /\ \/ \E n \in 0..MaxElements : \E shs \in [1..n -> Shapes] :
            /\ data' = <<OverpassBodyOf(shs)>>
            /\ Settle(op, PoisOf(OverpassBodyOf(shs)))
       \/ /\ data' = <<EmptyObject>>
          /\ Settle(op, PoisOf(EmptyObject))
    /\ UNCHANGED <<op, args, requests>>

\* response.json() rejects: the body is not JSON
JsonReject ==
    /\ pc = "json"
    /\ Settle(op, Rejected("ParseError"))
    /\ UNCHANGED <<op, args, requests, data>>

\* The awaiting function resumes: a rejection propagates, getFoodShops
\* returns the POIs, wikimediaInfo builds its record.
Resume ==
    /\ pc = "outer"
    /\ outcome' = IF inner.status = "rejected" THEN inner
                  ELSE IF op = "getFoodShops" THEN inner
                  ELSE InfoOf(inner, args.pageid)
    /\ pc' = "settled"
    /\ UNCHANGED <<op, args, requests, data, inner>>

\* the caller has seen the promise settle; the next call starts afresh
Return ==
    /\ pc = "settled"
    /\ op' = "none"
    /\ pc' = "idle"
    /\ args' = NoArgs
    /\ requests' = <<>>
    /\ data' = NoData
    /\ inner' = Pending
    /\ outcome' = Pending

Network == FetchResolve \/ FetchReject \/ JsonReject \/ Resume \/ Return

NextOverpass ==
    \/ CallOpenstreetmapGetPOIs
    \/ CallOpenstreetmapGetRestaurants
    \/ CallGetFoodShops
    \/ OverpassJsonResolve
    \/ Network

NextWiki ==
    \/ CallWikipediaQuery
    \/ CallWikidataQuery
    \/ CallWikimediaQuery
    \/ CallWikimediaInfoMultiplePages
    \/ CallWikimediaInfo
    \/ JsonResolve
    \/ Network

\* extractDiets is synchronous: it returns its list to the caller
CallExtractDiets ==
    /\ pc = "idle"
    /\ \E n \in 0..MaxPois : \E pois \in [1..n -> DietPois] :
        /\ op' = "extractDiets"
        /\ args' = [pois |-> pois]
        /\ outcome' = Resolved(extractDiets(pois))
    /\ pc' = "settled"
    /\ UNCHANGED <<requests, data, inner>>

NextDiets == CallExtractDiets \/ Return

Next ==
    \/ CallOpenstreetmapGetPOIs
    \/ CallOpenstreetmapGetRestaurants
    \/ CallGetFoodShops
    \/ CallWikipediaQuery
    \/ CallWikidataQuery
    \/ CallWikimediaQuery
    \/ CallWikimediaInfoMultiplePages
    \/ CallWikimediaInfo
    \/ CallExtractDiets
    \/ OverpassJsonResolve
    \/ JsonResolve
    \/ Network

\* every exported function
Spec == Init /\ [][Next]_vars
\* the functions over Overpass
SpecOverpass == Init /\ [][NextOverpass]_vars
\* the functions over Wikipedia, Wikidata and Wikimedia Commons
SpecWiki == Init /\ [][NextWiki]_vars
\* extractDiets
SpecDiets == Init /\ [][NextDiets]_vars

----------------------------------------------------------------------------
(* Properties of openstreetmapGetPOIs *)

\* an invocation over Overpass has resolved to a list of POIs
PoisResolved ==
    op \in OverpassOps /\ pc = "settled" /\ outcome.status = "resolved"

\* the elements of the response that have a tag object, in response order
TaggedElements == SelectSeq(data[1]["elements"], LAMBDA e : Has(e, "tags"))

\* the elements of the response that carry at least one tag
HasATag(e) == Has(e, "tags") /\ DOMAIN e["tags"] # {}

\* the type the raw element states, "relation" when it has members
ClaimedType(e) == IF Has(e, "members") THEN "relation" ELSE Get(e, "type")

SegmentOf(e, r) ==
    IF Get(e["tags"], "members") = "" THEN Get(r, "type") ELSE "relation"

C2_UrlsFromRawTypeAndId ==
    PoisResolved =>
        \A i \in DOMAIN TaggedElements :
            LET e == TaggedElements[i]
                r == outcome.value[i]
            IN  (Has(e, "type") \/ Has(e, "members")) =>
                    /\ ~Has(r, "tags")
                    /\ r["osm_url"] = OsmBase \o ClaimedType(e) \o "/" \o e["id"]
                    /\ r["osm_url_edit"] =
                           OsmBase \o "edit?" \o ClaimedType(e) \o "=" \o e["id"]

\* C3 as stated: the list has one record for exactly the elements that
\* carry at least one tag, in response order.
C3_OnlyElementsWithATag ==
    PoisResolved =>
        outcome.value = MapPois(SelectSeq(data[1]["elements"], HasATag))

\* C7 as stated: openstreetmapGetRestaurants issues the request
\* openstreetmapGetPOIs issues for the demo bounding box and the categories
\* amenity=cafe and amenity=restaurant, and settles as it does on the
\* response.
C7_RestaurantsDelegates ==
    (op = "openstreetmapGetRestaurants" /\ pc = "settled") =>
        /\ requests =
               <<OverpassRequest(DemoBBox,
                                 <<Pair("amenity", "cafe"),
                                   Pair("amenity", "restaurant")>>)>>
        /\ data # <<>> => outcome = PoisOf(data[1])

----------------------------------------------------------------------------
(* Properties of extractDiets *)

DietsDone == op = "extractDiets" /\ pc = "settled"

\* the position of the first sep in s, Len(s) + 1 if there is none
FirstIndexOf(s, sep) ==
    IF \E i \in DOMAIN s : s[i] = sep
    THEN CHOOSE i \in DOMAIN s : s[i] = sep /\ \A h \in 1..(i - 1) : s[h] # sep
    ELSE Len(s) + 1

\* the segment of key after its first colon, up to the next colon;
\* undefined for a key without a colon
SegmentAfterFirstColon(key) ==
    IF FirstIndexOf(key, ":") > Len(key) THEN UndefinedStr
    ELSE LET rest == SubSeq(key, FirstIndexOf(key, ":") + 1, Len(key))
         IN  SubSeq(rest, 1, FirstIndexOf(rest, ":") - 1)

\* the label set of a POI as C4 defines it
LabelSet(poi) ==
    (IF PoiGet(poi, Cuisine) = UndefinedStr THEN {}
     ELSE {ToLowerCase(Trim(t)) : t \in Range(Split(PoiGet(poi, Cuisine), ";"))})
    \cup {SegmentAfterFirstColon(e.key) :
            e \in {x \in Range(poi) : StartsWith(x.key, Diet) /\ x.value = Yes}}

RECURSIVE Encountered(_)
Encountered(pois) ==
    IF pois = <<>> THEN <<>>
    ELSE CuisineLabels(Head(pois)) \o DietKeyLabels(Head(pois))
         \o Encountered(Tail(pois))

\* C5: the pairs are in non-increasing order of count, and labels of equal
\* count are in the order in which the scan first met them.
C5_SortedStable ==
    DietsDone =>
        \A i, j \in DOMAIN outcome.value :
            i < j =>
                \/ outcome.value[i][2] > outcome.value[j][2]
                \/ /\ outcome.value[i][2] = outcome.value[j][2]
                   /\ FirstIndexOf(Encountered(args.pois), outcome.value[i][1])
                        < FirstIndexOf(Encountered(args.pois),
                                       outcome.value[j][1])

\* C5 witness: the sort moved a pair forward, and two pairs tie.
C5_Witness ==
    /\ DietsDone
    /\ outcome.value # DietsMap(<<>>, args.pois)
    /\ \E i, j \in DOMAIN outcome.value :
           i < j /\ outcome.value[i][2] = outcome.value[j][2]

\* a POI with a cuisine tag or a tag diet:<name> whose value is yes
Contributes(poi) ==
    \/ PoiGet(poi, Cuisine) # UndefinedStr
    \/ \E e \in Range(poi) : StartsWith(e.key, Diet \o <<":">>) /\ e.value = Yes

\* C6 as stated: the result is the result for the list without the POIs
\* that have no cuisine tag and no tag diet:<name> with value yes.
C6_OtherPoisContributeNothing ==
    DietsDone =>
        outcome.value = extractDiets(SelectSeq(args.pois, Contributes))

----------------------------------------------------------------------------
(* Properties of the requests *)

NetworkOps ==
    OverpassOps \cup {"wikipediaQuery", "wikidataQuery", "wikimediaQuery",
                      "wikimediaInfoMultiplePages", "wikimediaInfo"}

\* C8 as stated: an invocation of a network operation never issues more
\* than one request, and has issued exactly one when its promise settles.
C8_ExactlyOneRequest ==
    op \in NetworkOps =>
        /\ Len(requests) <= 1
        /\ outcome.status # "pending" => Len(requests) = 1

----------------------------------------------------------------------------
(* Properties of wikimediaQuery and wikimediaInfo *)

\* wikimediaQuery has settled after the body was parsed
HitsSettled == op = "wikimediaQuery" /\ pc = "settled" /\ data # <<>>

\* C9 as stated: with an `error` field the promise rejects with that error
\* object; without one it resolves to query.geosearch, or to an empty list
\* if that is missing.
C9_ErrorRejectsElseList ==
    HitsSettled =>
        LET d == data[1] IN
        IF Has(d, "error")
        THEN outcome.status = "rejected" /\ outcome.value = d["error"]
        ELSE /\ outcome.status = "resolved"
             /\ outcome.value =
                    IF Has(d, "query") /\ Has(d["query"], "geosearch")
                    THEN d["query"]["geosearch"] ELSE <<>>

\* C9 as amended: with an `error` field the promise rejects with that error
\* object; without one and with a `query` object it resolves to
\* query.geosearch, or to an empty list if geosearch is missing; without
\* `error` and without `query` it rejects with a TypeError.
C9_ErrorRejectsElseListIfQuery ==
    HitsSettled =>
        LET d == data[1] IN
        IF Has(d, "error")
        THEN outcome.status = "rejected" /\ outcome.value = d["error"]
        ELSE IF ~Has(d, "query")
        THEN outcome.status = "rejected" /\ outcome.value = "TypeError"
        ELSE /\ outcome.status = "resolved"
             /\ outcome.value =
                    IF Has(d["query"], "geosearch")
                    THEN d["query"]["geosearch"] ELSE <<>>

\* C9 witness: the body had an error beside a non-empty query.geosearch and
\* the promise rejected with the error.
C9_Witness ==
    /\ HitsSettled
    /\ Has(data[1], "error")
    /\ Has(data[1], "query")
    /\ Has(data[1]["query"], "geosearch")
    /\ data[1]["query"]["geosearch"] # <<>>
    /\ outcome.status = "rejected"

\* wikimediaInfo has settled after the batch request returned a mapping
\* that has no entry for the requested page id
InfoWithoutEntry ==
    /\ op = "wikimediaInfo"
    /\ pc = "settled"
    /\ inner.status = "resolved"
    /\ Has(inner, "value")
    /\ ~Has(inner.value, args.pageid)

\* C10: wikimediaInfo rejects whenever the mapping of the batch request has
\* no entry for the requested page id.
C10_MissingPageRejects == InfoWithoutEntry => outcome.status = "rejected"

\* C10 witness: the mapping has an entry for another page only, and
\* wikimediaInfo has settled.
C10_Witness == InfoWithoutEntry /\ DOMAIN inner.value # {}

====
